---- MODULE Spec2Model ----
(***************************************************************************)
(* State-machine model of salt/engines/http_logstash.py: the engine that   *)
(* reads events from the salt event bus, filters them by tag pattern and   *)
(* by function name, and POSTs the accepted ones to a logstash endpoint.   *)
(* Further specifications model, from tests/conftest.py, the checks of     *)
(* pytest_runtest_setup (SetupSpec), the tracking of fixture usage         *)
(* (FixtureSpec, TrackingSpec) and the temp helpers (HelperSpec), and from *)
(* salt/cloud/clouds/lightsail.py the function __virtual__ (VirtualSpec).  *)
(*                                                                         *)
(* Strings that are matched character by character (event tags and tag     *)
(* patterns) are tuples of one-character strings; names that are only      *)
(* compared for equality (function names, urls, ids) are TLA+ strings.     *)
(***************************************************************************)
EXTENDS Integers, Sequences, FiniteSets, TLC

VARIABLES
    url,        \* argument url of start: Absent (not passed), None, or a string
    funs,       \* argument funs of start
    tags,       \* argument tags of start
    opts_id,    \* __opts__.get("id")
    instance,   \* local variable instance of start
    event_bus,  \* local variable event_bus of start: None until the with binds it,
                \* then the subscription, named by the role it was opened for
    pc,         \* position of start
    event,      \* local variable event of start
    pulls,      \* number of event_bus.get_event calls that returned
    pulled,     \* the values get_event returned, in order
    posts,      \* the calls made to _logstash, in order
    inflight,   \* number of HTTP queries issued and not yet completed
    lastResult, \* how the latest HTTP query ended
    logged,     \* the log record the latest HTTP query left: "none" or "failure"
    opens,      \* number of calls to salt.utils.event.get_event
    released,   \* number of times the subscription's __exit__ ran
    err,        \* the exception that left start, or "none"
    \* tests/conftest.py, pytest_runtest_setup(item)
    item,             \* the markers of the test item and the command line options
    env,              \* what the machine answers to the probes of the setup
    setup_pc,         \* position of pytest_runtest_setup
    skip_msg,         \* the message of the pytest.skip that ended it, or "none"
    environ,          \* os.environ entries written by the setup
    skipped_by_mark,  \* item._skipped_by_mark
    \* salt/cloud/clouds/lightsail.py, __virtual__()
    active_provider,  \* __active_provider_name__
    has_boto,         \* HAS_BOTO
    configured,       \* what get_configured_provider() returned
    dependencies,     \* what get_dependencies() returned
    virt_pc,          \* position of __virtual__
    virt_ret,         \* what __virtual__ returned
    \* tests/conftest.py, fixture usage tracking
    hook,             \* the function the name pytest_collection_modifyitems is bound to
    auto_marked,      \* the automatic markers were added to the items
    tests,            \* the collected items, in running order
    next_test,        \* index of the next item to run
    tracked,          \* fixturedefs that have a node_ids attribute
    node_ids,         \* fixturedef.node_ids
    wrapped,          \* fixturedefs whose finish was replaced by the wrapper
    finished,         \* fixturedefs that have a _finished attribute
    finish_calls,     \* executions of the original finish, per fixturedef
    active,           \* fixturedefs that are set up
    requests,         \* calls of fixturedef.finish made by pytest itself
    request_ret,      \* how the latest of those calls ended
    fx_pc,            \* position of the session
    fx_err,           \* exception raised out of a hook
    \* tests/conftest.py, the helpers temp_directory, temp_file, temp_state_file
    h_args,           \* the helper called and its arguments
    h_pc,             \* position of the helper and of the block it manages
    h_path,           \* the path the helper yields
    h_err,            \* exception that left the helper or the block
    fs_dirs,          \* directories that exist
    fs_files,         \* files that exist
    fs_text,          \* what was written to the file at h_path
    created           \* paths the helper itself created

engine_vars == <<url, funs, tags, opts_id, instance, event_bus, pc, event, pulls,
                 pulled, posts, inflight, lastResult, logged, opens, released, err>>

setup_vars == <<item, env, setup_pc, skip_msg, environ, skipped_by_mark>>

virtual_vars == <<active_provider, has_boto, configured, dependencies, virt_pc,
                  virt_ret>>

fixture_vars == <<hook, auto_marked, tests, next_test, tracked, node_ids, wrapped,
                  finished, finish_calls, active, requests, request_ret, fx_pc,
                  fx_err>>

helper_vars == <<h_args, h_pc, h_path, h_err, fs_dirs, fs_files, fs_text, created>>

\* the variables of everything but the engine
harness_vars == <<setup_vars, virtual_vars, fixture_vars, helper_vars>>

\* the variables of everything but pytest_runtest_setup
nonsetup_vars == <<engine_vars, virtual_vars, fixture_vars, helper_vars>>

\* the variables of everything but __virtual__
nonvirtual_vars == <<engine_vars, setup_vars, fixture_vars, helper_vars>>

\* the variables of everything but the fixture tracking
nonfixture_vars == <<engine_vars, setup_vars, virtual_vars, helper_vars>>

\* the variables of everything but the temp helpers
nonhelper_vars == <<engine_vars, setup_vars, virtual_vars, fixture_vars>>

vars == <<engine_vars, harness_vars>>

\* the bus yields at most MaxPulls values in one run of the model
MaxPulls == 2

----------------------------------------------------------------------------
\* Values

Absent == "<absent>"
None == "<None>"
LogstashUrl == "http://blabla.com/salt-stuff"

T_new == <<"s","a","l","t","/","j","o","b","/","1","2","3","/","n","e","w">>
T_ret == <<"s","a","l","t","/","j","o","b","/","1","2","3","/","r","e","t","/","0">>
T_any == <<"a","n","y","/","t","a","g">>

P_new == <<"s","a","l","t","/","j","o","b","/","*","/","n","e","w">>
P_ret == <<"s","a","l","t","/","j","o","b","/","*","/","r","e","t","/","*">>
P_cls == <<"a","n","y","/","[","!","s","]","a","?">>

\* event records as get_event(full=True) returns them
Events ==
    { [tag |-> T_new, data |-> [jid |-> "123", fun |-> "probes.results"]],
      [tag |-> T_new, data |-> [jid |-> "123", fun |-> "other.fn"]],
      [tag |-> T_ret, data |-> [jid |-> "123"]],
      [tag |-> T_any, data |-> [jid |-> "9", fun |-> "other.fn"]],
      [tag |-> T_any, data |-> [jid |-> "9"]] }

\* the None that get_event returns when no event arrived
NoEvent == [null |-> TRUE]

\* an event that is an empty mapping
EmptyEvent == [empty |-> TRUE]

\* line 111: the python truth value of what get_event returned
EventTruthy(e) == e \notin {NoEvent, EmptyEvent}

\* what get_event can return
BusValues == Events \cup {NoEvent, EmptyEvent}

\* values of the tags argument: None, a python list or tuple of patterns, or
\* a single pattern given as a string (held as the one pattern it spells)
TagsValues ==
    { [kind |-> "none", pats |-> <<>>],
      [kind |-> "list", pats |-> <<>>],
      [kind |-> "list", pats |-> <<P_new>>],
      [kind |-> "list", pats |-> <<P_new, P_ret>>],
      [kind |-> "list", pats |-> <<P_cls>>],
      [kind |-> "tuple", pats |-> <<P_new>>],
      [kind |-> "str", pats |-> <<P_ret>>] }

\* values of the funs argument: None, a python list of names, or a scalar
\* that is true but is not a container
FunsValues ==
    { [kind |-> "none", names |-> <<>>],
      [kind |-> "list", names |-> <<>>],
      [kind |-> "list", names |-> <<"probes.results">>],
      [kind |-> "list", names |-> <<"probes.results", "other.fn">>],
      [kind |-> "scalar", names |-> <<>>] }

UrlValues == {Absent, None, LogstashUrl}

\* values of __opts__.get("id"), character by character; NoId is the None that
\* the lookup yields when the configuration has no id
NoId == <<"<None>">>
Id_salt_master == <<"s","a","l","t","_","m","a","s","t","e","r">>
Id_a_master1 == <<"a","_","m","a","s","t","e","r","1">>
Id_master == <<"m","a","s","t","e","r">>

IdValues == {NoId, Id_salt_master, Id_a_master1, Id_master}

\* how salt.utils.http.query can end: a response, an error result, an exception
QueryOutcomes == {"2xx", "500", "error", "raise"}

\* the outcomes of which salt.utils.http.query leaves a log record of failure:
\* a non-2xx response and a transport error that it returns as an error result
QueryLogs(r) == r \in {"500", "error"}

\* how event_bus.get_event can fail: the connection is lost, or the host
\* interrupts the blocking wait
GetEventFailures == {"SubscriptionError", "Cancelled"}

----------------------------------------------------------------------------
\* fnmatch.fnmatch(name, pat) on posix: shell-style match of the whole name.
\* "*" matches any run of characters, "?" one character, "[seq]" one character
\* of seq, "[!seq]" one character not in seq; a "[" that is never closed is a
\* literal. The patterns of the model contain no "-" range and no backslash.

\* index of the "]" that closes the class opened just before position j,
\* or Len(p) + 1 when there is none
RECURSIVE ScanClose(_, _)
ScanClose(p, j) ==
    IF j > Len(p) THEN j
    ELSE IF p[j] = "]" THEN j
    ELSE ScanClose(p, j + 1)

ClassEnd(p, j) ==
    LET j1 == IF j <= Len(p) /\ p[j] = "!" THEN j + 1 ELSE j
        j2 == IF j1 <= Len(p) /\ p[j1] = "]" THEN j1 + 1 ELSE j1
    IN ScanClose(p, j2)

RECURSIVE MatchFrom(_, _, _, _)
MatchFrom(n, p, i, j) ==
    IF j > Len(p) THEN i > Len(n)
    ELSE IF p[j] = "*" THEN
        MatchFrom(n, p, i, j + 1) \/ (i <= Len(n) /\ MatchFrom(n, p, i + 1, j))
    ELSE IF p[j] = "?" THEN
        i <= Len(n) /\ MatchFrom(n, p, i + 1, j + 1)
    ELSE IF p[j] = "[" THEN
        LET k == ClassEnd(p, j + 1) IN
        IF k > Len(p) THEN
            i <= Len(n) /\ n[i] = "[" /\ MatchFrom(n, p, i + 1, j + 1)
        ELSE
            LET negated == p[j + 1] = "!"
                first == IF negated THEN j + 2 ELSE j + 1
                members == { p[x] : x \in first .. (k - 1) }
            IN i <= Len(n)
               /\ ((n[i] \in members) # negated)
               /\ MatchFrom(n, p, i + 1, k + 1)
    ELSE
        i <= Len(n) /\ n[i] = p[j] /\ MatchFrom(n, p, i + 1, j + 1)

fnmatch(name, pat) == MatchFrom(name, pat, 1, 1)

----------------------------------------------------------------------------
\* The filter of start, lines 112-121

\* python truth value of the tags / funs argument
Truthy(arg) ==
    \/ arg.kind = "scalar"
    \/ arg.kind = "list" /\ arg.names # <<>>

TagsTruthy(t) == t.kind # "none" /\ t.pats # <<>>

\* the loop with found_match assigned the result of every comparison, so that
\* only the last pattern counts
RECURSIVE FoundMatchLoop_LastWins(_, _, _, _)
FoundMatchLoop_LastWins(evtag, pats, i, found_match) ==
    IF i > Len(pats) THEN found_match
    ELSE FoundMatchLoop_LastWins(evtag, pats, i + 1, fnmatch(evtag, pats[i]))

\* the for loop over tags: found_match after patterns i.. have been tried
RECURSIVE FoundMatchLoop(_, _, _, _)
FoundMatchLoop(evtag, pats, i, found_match) ==
    IF i > Len(pats) THEN found_match
    ELSE FoundMatchLoop(evtag, pats, i + 1,
                        IF fnmatch(evtag, pats[i]) THEN TRUE ELSE found_match)

\* the tag filter applied to every list, the empty one included
TagStage_EveryList(ev, t) ==
    IF t.kind = "list"
    THEN FoundMatchLoop(ev.tag, t.pats, 1, FALSE)
    ELSE TRUE

\* the tag filter applied to every non-empty value, whatever its type
TagStage_AnySequence(ev, t) ==
    IF TagsTruthy(t)
    THEN FoundMatchLoop(ev.tag, t.pats, 1, FALSE)
    ELSE TRUE

\* publish after lines 112-118
TagStage(ev, t) ==
    IF TagsTruthy(t) /\ t.kind = "list"
    THEN FoundMatchLoop(ev.tag, t.pats, 1, FALSE)
    ELSE TRUE

\* line 119: the condition under which line 120 is evaluated
FunStageEntered(ev, f) == Truthy(f) /\ "fun" \in DOMAIN ev.data

\* line 120 raises TypeError when funs is not a container
FunStageRaises(ev, f) == FunStageEntered(ev, f) /\ f.kind = "scalar"

InNames(x, names) == \E i \in 1 .. Len(names) : names[i] = x

\* the function test assigning publish instead of only clearing it
Publish_FunOverridesTag(ev, t, f) ==
    IF FunStageEntered(ev, f)
    THEN InNames(ev.data.fun, f.names)
    ELSE TagStage(ev, t)

\* the function test rejecting an event that has no fun field
Publish_Strict(ev, t, f) ==
    IF Truthy(f) /\ ("fun" \notin DOMAIN ev.data \/ ~InNames(ev.data.fun, f.names))
    THEN FALSE
    ELSE TagStage(ev, t)

\* publish after lines 112-121, for an event on which line 120 does not raise
Publish(ev, t, f) ==
    LET publish == TagStage(ev, t) IN
    IF FunStageEntered(ev, f) /\ ~InNames(ev.data.fun, f.names)
    THEN FALSE
    ELSE publish

----------------------------------------------------------------------------
\* The steps of start

LoopStates == {"pull", "filter", "deliver"}

\* the loop outside any with block: an exception leaves the subscription open
WithExit_NoRelease(e) ==
    /\ released' = released
    /\ pc' = "raised"
    /\ err' = e

\* an exception leaves the with block of lines 103-123: __exit__ releases the
\* subscription and the exception goes on to the caller
WithExit(e) ==
    /\ released' = released + 1
    /\ pc' = "raised"
    /\ err' = e

\* pytest_runtest_setup not running
SetupIdle ==
    /\ item = "none"
    /\ env = "none"
    /\ setup_pc = "idle"
    /\ skip_msg = "none"
    /\ environ = "none"
    /\ skipped_by_mark = FALSE

\* start not running
EngineIdle ==
    /\ url = Absent
    /\ funs = [kind |-> "none", names |-> <<>>]
    /\ tags = [kind |-> "none", pats |-> <<>>]
    /\ opts_id = NoId
    /\ instance = None
    /\ event_bus = None
    /\ pc = "idle"
    /\ event = NoEvent
    /\ pulls = 0
    /\ pulled = <<>>
    /\ posts = <<>>
    /\ inflight = 0
    /\ lastResult = "none"
    /\ logged = "none"
    /\ opens = 0
    /\ released = 0
    /\ err = "none"

\* python values that are told apart by "is False"
PyFalse == [kind |-> "bool", b |-> FALSE]
PyTrue == [kind |-> "bool", b |-> TRUE]
PyUnset == [kind |-> "unset"]
IsFalse(v) == v = PyFalse

\* __virtual__ not running
VirtualIdle ==
    /\ active_provider = None
    /\ has_boto = FALSE
    /\ configured = PyUnset
    /\ dependencies = PyUnset
    /\ virt_pc = "idle"
    /\ virt_ret = PyUnset

\* fixturedef.scope of the fixtures the items can name
FixtureScope ==
    [session_master_id |-> "session", module_daemon |-> "module",
     tmpdir |-> "function"]
FixtureNames == DOMAIN FixtureScope

\* no session running
FixtureIdle ==
    /\ hook = "unbound"
    /\ auto_marked = FALSE
    /\ tests = <<>>
    /\ next_test = 0
    /\ tracked = {}
    /\ node_ids = [f \in FixtureNames |-> {}]
    /\ wrapped = {}
    /\ finished = {}
    /\ finish_calls = [f \in FixtureNames |-> 0]
    /\ active = {}
    /\ requests = 0
    /\ request_ret = "none"
    /\ fx_pc = "idle"
    /\ fx_err = None

\* a file never written, a path not yet computed
NoText == [absent |-> TRUE]
NoPath == <<>>

\* no helper called
HelperIdle ==
    /\ h_args = [helper |-> "none"]
    /\ h_pc = "idle"
    /\ h_path = NoPath
    /\ h_err = "none"
    /\ fs_dirs = {}
    /\ fs_files = {}
    /\ fs_text = NoText
    /\ created = {}

Init ==
    /\ SetupIdle
    /\ VirtualIdle
    /\ FixtureIdle
    /\ HelperIdle
    /\ url \in UrlValues
    /\ funs \in FunsValues
    /\ tags \in TagsValues
    /\ opts_id \in IdValues
    /\ instance = None
    /\ event_bus = None
    /\ pc = "call"
    /\ event = NoEvent
    /\ pulls = 0
    /\ pulled = <<>>
    /\ posts = <<>>
    /\ inflight = 0
    /\ lastResult = "none"
    /\ logged = "none"
    /\ opens = 0
    /\ released = 0
    /\ err = "none"

\* line 79: the call binds the arguments; url has no default
Call ==
    /\ pc = "call"
    /\ IF url = Absent
       THEN pc' = "raised" /\ err' = "TypeError"
       ELSE pc' = "role" /\ err' = err
    /\ UNCHANGED <<harness_vars, logged, url, funs, tags, opts_id, instance, event_bus, event, pulls, pulled,
                   posts, inflight, lastResult, opens, released>>

\* the suffix "_master" of line 99
MasterSuffix == <<"_","m","a","s","t","e","r">>

\* s.endswith(suffix)
EndsWith(s, suffix) ==
    /\ Len(s) >= Len(suffix)
    /\ \A i \in 1 .. Len(suffix) : s[Len(s) - Len(suffix) + i] = suffix[i]

\* the role test written as "_master" in id
EndsWithMaster_Contains(s) ==
    \E k \in 0 .. Len(s) :
        /\ k + Len(MasterSuffix) <= Len(s)
        /\ SubSeq(s, k + 1, k + Len(MasterSuffix)) = MasterSuffix

\* line 99: __opts__.get("id").endswith("_master")
EndsWithMaster(s) == EndsWith(s, MasterSuffix)

\* the role computed with a missing id taken for a minion's
ComputeRole_NoneIsMinion ==
    /\ pc = "role"
    /\ pc' = "open"
    /\ err' = err
    /\ instance' = IF opts_id # NoId /\ EndsWithMaster(opts_id)
                   THEN "master" ELSE "minion"
    /\ UNCHANGED <<harness_vars, logged, url, funs, tags, opts_id, event_bus, event, pulls, pulled,
                   posts, inflight, lastResult, opens, released>>

\* lines 99-102
ComputeRole ==
    /\ pc = "role"
    /\ IF opts_id = NoId
       THEN /\ pc' = "raised"
            /\ err' = "AttributeError"
            /\ instance' = instance
       ELSE /\ pc' = "open"
            /\ err' = err
            /\ instance' = IF EndsWithMaster(opts_id) THEN "master" ELSE "minion"
    /\ UNCHANGED <<harness_vars, logged, url, funs, tags, opts_id, event_bus, event, pulls, pulled,
                   posts, inflight, lastResult, opens, released>>

\* opening the subscription in a retry loop
OpenSubscription_Retry ==
    /\ pc = "open"
    /\ opens < 3
    /\ opens' = opens + 1
    /\ \E ok \in BOOLEAN :
         IF ok
         THEN pc' = "pull" /\ event_bus' = instance
         ELSE pc' = "open" /\ event_bus' = event_bus
    /\ UNCHANGED <<harness_vars, logged, url, funs, tags, opts_id, instance, event, pulls, pulled,
                   posts, inflight, lastResult, released, err>>

\* the with block ending before the loop: the subscription is released as
\* soon as it is opened
OpenSubscription_WithEndsBeforeLoop ==
    /\ pc = "open"
    /\ opens' = opens + 1
    /\ \E ok \in BOOLEAN :
         IF ok
         THEN /\ pc' = "pull" /\ err' = err /\ event_bus' = instance
              /\ released' = released + 1
         ELSE /\ pc' = "raised" /\ err' = "SubscriptionError"
              /\ event_bus' = event_bus /\ released' = released
    /\ UNCHANGED <<harness_vars, logged, url, funs, tags, opts_id, instance, event, pulls, pulled,
                   posts, inflight, lastResult>>

\* lines 103-108: the subscription is opened, or opening it raises
OpenSubscription ==
    /\ pc = "open"
    /\ opens' = opens + 1
    /\ \E ok \in BOOLEAN :
         IF ok
         THEN pc' = "pull" /\ err' = err /\ event_bus' = instance
         ELSE pc' = "raised" /\ err' = "SubscriptionError"
              /\ event_bus' = event_bus
    /\ UNCHANGED <<harness_vars, logged, url, funs, tags, opts_id, instance, event, pulls, pulled,
                   posts, inflight, lastResult, released>>

\* the loop left by a break when get_event returns no event
GetEvent_BreaksOnNull ==
    /\ pc = "pull"
    /\ pulls < MaxPulls
    /\ \E e \in BusValues :
         /\ event' = e
         /\ pulled' = Append(pulled, e)
         /\ IF EventTruthy(e)
            THEN pc' = "filter" /\ released' = released
            ELSE pc' = "returned" /\ released' = released + 1
    /\ pulls' = pulls + 1
    /\ UNCHANGED <<harness_vars, logged, url, funs, tags, opts_id, instance, event_bus, posts, inflight,
                   lastResult, opens, err>>

\* lines 110-111: get_event returns an event or None
GetEvent ==
    /\ pc = "pull"
    /\ pulls < MaxPulls
    /\ \E e \in BusValues :
         /\ event' = e
         /\ pulled' = Append(pulled, e)
         /\ pc' = IF EventTruthy(e) THEN "filter" ELSE "pull"
    /\ pulls' = pulls + 1
    /\ UNCHANGED <<harness_vars, logged, url, funs, tags, opts_id, instance, event_bus, posts, inflight,
                   lastResult, opens, released, err>>

\* line 110: get_event raises
GetEventRaises ==
    /\ pc = "pull"
    /\ \E e \in GetEventFailures : WithExit(e)
    /\ UNCHANGED <<harness_vars, logged, url, funs, tags, opts_id, instance, event_bus, event, pulls, pulled,
                   posts, inflight, lastResult, opens>>

\* _HEADERS, line 47
Headers == "Content-Type" :> "application/json"

\* the order in which the keys of a data mapping are written
KeyOrder == <<"jid", "fun", "tag">>

\* salt.utils.json.dumps(data), line 66: the JSON text as a sequence of tokens,
\* a string being its text between two quote tokens
RECURSIVE DumpsMembers(_, _, _)
DumpsMembers(d, i, first) ==
    IF i > Len(KeyOrder) THEN <<>>
    ELSE IF KeyOrder[i] \notin DOMAIN d THEN DumpsMembers(d, i + 1, first)
    ELSE (IF first THEN <<>> ELSE <<",">>)
         \o <<"\"", KeyOrder[i], "\"", ":", "\"", d[KeyOrder[i]], "\"">>
         \o DumpsMembers(d, i + 1, FALSE)

Dumps(d) == <<"{">> \o DumpsMembers(d, 1, TRUE) \o <<"}">>

\* the call that serializes the whole event, tag included
LogstashCall_WholeEvent(i, u, ev) ==
    [idx |-> i, url |-> u, data |-> ev.data, method |-> "POST",
     header_dict |-> Headers,
     body |-> Dumps(ev.data @@ ("tag" :> "tag-of-the-event"))]

\* line 123 and lines 62-70: _logstash(url, event['data']) and the query it
\* issues; idx is the number of the get_event call that returned the event
LogstashCall(i, u, ev) ==
    [idx |-> i, url |-> u, data |-> ev.data, method |-> "POST",
     header_dict |-> Headers, body |-> Dumps(ev.data)]

\* the filter handing the POST to a background worker and going on to pull
Filter_Async ==
    /\ pc = "filter"
    /\ IF FunStageRaises(event, funs)
       THEN /\ WithExit("TypeError")
            /\ UNCHANGED <<posts, inflight>>
       ELSE IF Publish(event, tags, funs)
       THEN /\ posts' = Append(posts, LogstashCall(pulls, url, event))
            /\ inflight' = inflight + 1
            /\ pc' = "pull"
            /\ UNCHANGED <<released, err>>
       ELSE /\ pc' = "pull"
            /\ UNCHANGED <<posts, inflight, released, err>>
    /\ UNCHANGED <<harness_vars, logged, url, funs, tags, opts_id, instance, event_bus, event, pulls,
                   pulled, lastResult, opens>>

\* the filter dropping every event once a delivery has failed
Filter_CircuitBreaker ==
    /\ pc = "filter"
    /\ IF FunStageRaises(event, funs)
       THEN /\ WithExit("TypeError")
            /\ UNCHANGED <<posts, inflight>>
       ELSE IF Publish(event, tags, funs) /\ lastResult \notin {"500", "error"}
       THEN /\ posts' = Append(posts, LogstashCall(pulls, url, event))
            /\ inflight' = inflight + 1
            /\ pc' = "deliver"
            /\ UNCHANGED <<released, err>>
       ELSE /\ pc' = "pull"
            /\ UNCHANGED <<posts, inflight, released, err>>
    /\ UNCHANGED <<harness_vars, logged, url, funs, tags, opts_id, instance, event_bus, event, pulls, pulled,
                   lastResult, opens>>

\* the for loop of line 114 with its loop variable named tags: after the
\* loop the name tags holds the last pattern
Filter_RebindsTags ==
    /\ pc = "filter"
    /\ IF FunStageRaises(event, funs)
       THEN /\ WithExit("TypeError")
            /\ UNCHANGED <<posts, inflight>>
       ELSE IF Publish(event, tags, funs)
       THEN /\ posts' = Append(posts, LogstashCall(pulls, url, event))
            /\ inflight' = inflight + 1
            /\ pc' = "deliver"
            /\ UNCHANGED <<released, err>>
       ELSE /\ pc' = "pull"
            /\ UNCHANGED <<posts, inflight, released, err>>
    /\ tags' = IF TagsTruthy(tags) /\ tags.kind = "list"
               THEN [kind |-> "str", pats |-> <<tags.pats[Len(tags.pats)]>>]
               ELSE tags
    /\ UNCHANGED <<harness_vars, logged, url, funs, opts_id, instance, event_bus, event, pulls, pulled,
                   lastResult, opens>>

\* the calls kept newest first
Filter_NewestFirst ==
    /\ pc = "filter"
    /\ IF FunStageRaises(event, funs)
       THEN /\ WithExit("TypeError")
            /\ UNCHANGED <<posts, inflight>>
       ELSE IF Publish(event, tags, funs)
       THEN /\ posts' = <<LogstashCall(pulls, url, event)>> \o posts
            /\ inflight' = inflight + 1
            /\ pc' = "deliver"
            /\ UNCHANGED <<released, err>>
       ELSE /\ pc' = "pull"
            /\ UNCHANGED <<posts, inflight, released, err>>
    /\ UNCHANGED <<harness_vars, logged, url, funs, tags, opts_id, instance, event_bus, event, pulls, pulled,
                   lastResult, opens>>

\* lines 112-122, then the call of line 123 up to the HTTP query of line 62
Filter ==
    /\ pc = "filter"
    /\ IF FunStageRaises(event, funs)
       THEN /\ WithExit("TypeError")
            /\ UNCHANGED <<posts, inflight>>
       ELSE IF Publish(event, tags, funs)
       THEN /\ posts' = Append(posts, LogstashCall(pulls, url, event))
            /\ inflight' = inflight + 1
            /\ pc' = "deliver"
            /\ UNCHANGED <<released, err>>
       ELSE /\ pc' = "pull"
            /\ UNCHANGED <<posts, inflight, released, err>>
    /\ UNCHANGED <<harness_vars, logged, url, funs, tags, opts_id, instance, event_bus, event, pulls, pulled,
                   lastResult, opens>>

\* a delivery that is tried again when the query reports an error
DeliverDone_Retry ==
    /\ pc = "deliver"
    /\ \E r \in QueryOutcomes :
         /\ lastResult' = r
         /\ logged' = IF QueryLogs(r) THEN "failure" ELSE "none"
         /\ IF r = "raise"
            THEN WithExit("DeliveryError") /\ UNCHANGED posts
                 /\ inflight' = inflight - 1
            ELSE IF r = "error" /\ Len(posts) < 3
            THEN /\ posts' = Append(posts, posts[Len(posts)])
                 /\ pc' = "deliver"
                 /\ UNCHANGED <<released, err, inflight>>
            ELSE /\ pc' = "pull"
                 /\ inflight' = inflight - 1
                 /\ UNCHANGED <<released, err, posts>>
    /\ UNCHANGED <<harness_vars, url, funs, tags, opts_id, instance, event_bus, event, pulls,
                   pulled, opens>>

\* a delivery that raises for a response outside 2xx
DeliverDone_RaiseForStatus ==
    /\ pc = "deliver"
    /\ \E r \in QueryOutcomes :
         /\ lastResult' = r
         /\ logged' = IF QueryLogs(r) THEN "failure" ELSE "none"
         /\ IF r \in {"raise", "500"}
            THEN WithExit("DeliveryError")
            ELSE pc' = "pull" /\ UNCHANGED <<released, err>>
    /\ inflight' = inflight - 1
    /\ UNCHANGED <<harness_vars, url, funs, tags, opts_id, instance, event_bus, event, pulls,
                   pulled, posts, opens>>

\* lines 62-71 and 123: the query ends; its result is returned and discarded,
\* its exception is not caught
DeliverDone ==
    /\ pc = "deliver"
    /\ \E r \in QueryOutcomes :
         /\ lastResult' = r
         /\ logged' = IF QueryLogs(r) THEN "failure" ELSE "none"
         /\ IF r = "raise"
            THEN WithExit("DeliveryError")
            ELSE pc' = "pull" /\ UNCHANGED <<released, err>>
    /\ inflight' = inflight - 1
    /\ UNCHANGED <<harness_vars, url, funs, tags, opts_id, instance, event_bus, event, pulls, pulled,
                   posts, opens>>

Next ==
    \/ Call
    \/ ComputeRole
    \/ OpenSubscription
    \/ GetEvent
    \/ GetEventRaises
    \/ Filter
    \/ DeliverDone

Spec == Init /\ [][Next]_vars

----------------------------------------------------------------------------
\* tests/conftest.py: pytest_runtest_setup(item), lines 431-545. The checks of
\* lines 547-606 (salt modules, salt states, windows) follow position "modules"
\* and are not part of the model.

\* the binaries a skip_if_binaries_missing marker can name
BinaryNames == {"sudo", "git"}

\* a positional argument of a marker: a name, or a list of names
StrArg(name) == [kind |-> "str", v |-> <<name>>]
ListArg(names) == [kind |-> "list", v |-> names]

\* the skip_if_binaries_missing marker: absent, or its positional arguments and
\* its check_all keyword
BinariesMarks ==
    {[present |-> FALSE, args |-> <<>>, check_all |-> FALSE]}
    \cup [present : {TRUE},
          args : {<<>>,
                  <<StrArg("sudo")>>,
                  <<StrArg("sudo"), StrArg("git")>>,
                  <<ListArg(<<"sudo", "git">>)>>,
                  <<ListArg(<<"git">>)>>},
          check_all : BOOLEAN]

\* the requires_network marker: absent, or its only_local_network argument
NetworkMarks ==
    {[present |-> FALSE, only_local_network |-> FALSE]}
    \cup [present : {TRUE}, only_local_network : BOOLEAN]

\* the markers of a test item and the options of the run
Items ==
    [destructive_test : BOOLEAN,
     expensive_test : BOOLEAN,
     skip_if_not_root : BOOLEAN,
     skip_if_binaries_missing : BinariesMarks,
     requires_network : NetworkMarks,
     run_destructive : BOOLEAN,
     run_expensive : BOOLEAN]

\* number of addresses probed by lines 520-532
NumAddrs == 11

\* what the machine answers: os.getuid() = 0, the binaries found in the path,
\* whether the IPv4 and the IPv6 binds succeed, and which of the probed
\* addresses accept a connection
Envs ==
    [root : BOOLEAN,
     found : SUBSET BinaryNames,
     bind4 : BOOLEAN,
     bind6 : BOOLEAN,
     reachable : {{}, {1}, {NumAddrs}, {2, 5}}]

Msg_Destructive == "Destructive tests are disabled"
Msg_Expensive == "Expensive tests are disabled"
Msg_Root == "You must be logged in as root to run this test"
Msg_Binary == "The binary was not found"
Msg_NoBinaries == "None of the following binaries was found"
Msg_NoLocalNetwork == "No local network was detected"
Msg_NoInternet == "No internet network connection was detected"

\* pytest.skip(msg): the exception ends pytest_runtest_setup
Skip(msg) ==
    /\ setup_pc' = "skipped"
    /\ skip_msg' = msg

SetupInit ==
    /\ EngineIdle
    /\ VirtualIdle
    /\ FixtureIdle
    /\ HelperIdle
    /\ item \in Items
    /\ env \in Envs
    /\ setup_pc = "destructive"
    /\ skip_msg = "none"
    /\ environ = [DESTRUCTIVE_TESTS |-> "unset", EXPENSIVE_TESTS |-> "unset"]
    /\ skipped_by_mark = FALSE

\* six.text_type(option)
TextType(b) == IF b THEN "True" ELSE "False"

\* lines 436-440
CheckDestructive ==
    /\ setup_pc = "destructive"
    /\ IF item.destructive_test /\ item.run_destructive = FALSE
       THEN Skip(Msg_Destructive) /\ UNCHANGED environ
       ELSE /\ environ' = [environ EXCEPT
                             !.DESTRUCTIVE_TESTS = TextType(item.run_destructive)]
            /\ setup_pc' = "expensive"
            /\ UNCHANGED skip_msg
    /\ UNCHANGED <<nonsetup_vars, item, env, skipped_by_mark>>

\* the expensive check reading the option of the destructive one
CheckExpensive_WrongOption ==
    /\ setup_pc = "expensive"
    /\ IF item.expensive_test /\ item.run_destructive = FALSE
       THEN Skip(Msg_Expensive) /\ UNCHANGED environ
       ELSE /\ environ' = [environ EXCEPT
                             !.EXPENSIVE_TESTS = TextType(item.run_expensive)]
            /\ setup_pc' = "root"
            /\ UNCHANGED skip_msg
    /\ UNCHANGED <<nonsetup_vars, item, env, skipped_by_mark>>

\* lines 442-446
CheckExpensive ==
    /\ setup_pc = "expensive"
    /\ IF item.expensive_test /\ item.run_expensive = FALSE
       THEN Skip(Msg_Expensive) /\ UNCHANGED environ
       ELSE /\ environ' = [environ EXCEPT
                             !.EXPENSIVE_TESTS = TextType(item.run_expensive)]
            /\ setup_pc' = "root"
            /\ UNCHANGED skip_msg
    /\ UNCHANGED <<nonsetup_vars, item, env, skipped_by_mark>>

\* lines 448-451
CheckRoot ==
    /\ setup_pc = "root"
    /\ IF item.skip_if_not_root /\ ~env.root
       THEN Skip(Msg_Root)
       ELSE setup_pc' = "binaries" /\ UNCHANGED skip_msg
    /\ UNCHANGED <<nonsetup_vars, item, env, environ, skipped_by_mark>>

\* salt.utils.path.which(binary) is None
WhichIsNone(binary, found) == binary \notin found

\* salt.utils.path.which_bin(binaries) is None: none of them is found
WhichBinIsNone(binaries, found) ==
    \A i \in 1 .. Len(binaries) : WhichIsNone(binaries[i], found)

\* lines 455-458: the binaries named by the marker, a single list unwrapped
MarkedBinaries(mark) ==
    IF Len(mark.args) = 1 /\ mark.args[1].kind = "list"
    THEN mark.args[1].v
    ELSE [i \in 1 .. Len(mark.args) |-> mark.args[i].v[1]]

\* lines 461-469: the loop of check_all skips at the first binary not found
RECURSIVE CheckAllSkips(_, _, _)
CheckAllSkips(binaries, i, found) ==
    IF i > Len(binaries) THEN FALSE
    ELSE IF WhichIsNone(binaries[i], found) THEN TRUE
    ELSE CheckAllSkips(binaries, i + 1, found)

\* lines 453-476
CheckBinaries ==
    /\ setup_pc = "binaries"
    /\ LET mark == item.skip_if_binaries_missing
           binaries == MarkedBinaries(mark)
       IN IF ~mark.present
          THEN setup_pc' = "network" /\ UNCHANGED <<skip_msg, skipped_by_mark>>
          ELSE IF mark.check_all
          THEN IF CheckAllSkips(binaries, 1, env.found)
               THEN Skip(Msg_Binary) /\ skipped_by_mark' = TRUE
               ELSE setup_pc' = "network" /\ UNCHANGED <<skip_msg, skipped_by_mark>>
          ELSE IF WhichBinIsNone(binaries, env.found)
               THEN Skip(Msg_NoBinaries) /\ skipped_by_mark' = TRUE
               ELSE setup_pc' = "network" /\ UNCHANGED <<skip_msg, skipped_by_mark>>
    /\ UNCHANGED <<nonsetup_vars, item, env, environ>>

\* lines 483-509: has_local_network after the IPv4 attempt and, if it raised,
\* the IPv6 attempt
HasLocalNetwork(e) == IF e.bind4 THEN TRUE ELSE e.bind6

\* lines 533-545, one address: the try body ends with break when the connect
\* succeeds and the except clause continues when it raises, so the else clause
\* of the try, which holds the skip, is entered in neither case
ProbeAddr(i, reachable) ==
    IF i \in reachable THEN "break" ELSE "continue"

\* lines 520-545: the for loop; "skip" if an else clause of the try is entered
RECURSIVE ProbeLoop(_, _)
ProbeLoop(i, reachable) ==
    IF i > NumAddrs THEN "exhausted"
    ELSE IF ProbeAddr(i, reachable) = "break" THEN "break"
    ELSE IF ProbeAddr(i, reachable) = "continue" THEN ProbeLoop(i + 1, reachable)
    ELSE "skip"

\* lines 478-545
CheckNetwork ==
    /\ setup_pc = "network"
    /\ LET mark == item.requires_network IN
       IF ~mark.present
       THEN setup_pc' = "modules" /\ UNCHANGED <<skip_msg, skipped_by_mark>>
       ELSE IF mark.only_local_network = TRUE /\ HasLocalNetwork(env) = FALSE
       THEN Skip(Msg_NoLocalNetwork) /\ skipped_by_mark' = TRUE
       ELSE IF ProbeLoop(1, env.reachable) = "skip"
       THEN Skip(Msg_NoInternet) /\ skipped_by_mark' = TRUE
       ELSE setup_pc' = "modules" /\ UNCHANGED <<skip_msg, skipped_by_mark>>
    /\ UNCHANGED <<nonsetup_vars, item, env, environ>>

SetupNext ==
    \/ CheckDestructive
    \/ CheckExpensive
    \/ CheckRoot
    \/ CheckBinaries
    \/ CheckNetwork

SetupSpec == SetupInit /\ [][SetupNext]_vars

----------------------------------------------------------------------------
\* salt/cloud/clouds/lightsail.py: __virtual__, lines 58-93

\* __virtualname__, line 58
VirtualName == [kind |-> "str", s |-> "lightsail"]

\* values of __active_provider_name__: unset, empty, or "alias:driver"
ActiveProviderValues == {None, "", "my-lightsail:lightsail"}

\* the keys a provider configuration can hold besides the required id and key
OptionalKeys == {"location", "access_key_id", "secret_access_key"}

\* what config.is_provider_configured can return: False, or the details of a
\* provider that has the required keys ('id', 'key')
ProviderResults ==
    {PyFalse} \cup { [kind |-> "dict", keys |-> {"id", "key"} \cup extra] :
                     extra \in SUBSET OptionalKeys }

\* config.check_driver_dependencies(name, {'boto3': HAS_BOTO}): False when a
\* dependency is missing, True otherwise
CheckDriverDependencies(boto) == IF boto THEN PyTrue ELSE PyFalse

VirtualInit ==
    /\ EngineIdle
    /\ SetupIdle
    /\ FixtureIdle
    /\ HelperIdle
    /\ active_provider \in ActiveProviderValues
    /\ has_boto \in BOOLEAN
    /\ configured = PyUnset
    /\ dependencies = PyUnset
    /\ virt_pc = "configured"
    /\ virt_ret = PyUnset

\* lines 66-67 with get_configured_provider, lines 75-83
CheckConfiguredProvider ==
    /\ virt_pc = "configured"
    /\ \E r \in ProviderResults :
         /\ configured' = r
         /\ IF IsFalse(r)
            THEN virt_pc' = "returned" /\ virt_ret' = PyFalse
            ELSE virt_pc' = "dependencies" /\ UNCHANGED virt_ret
    /\ UNCHANGED <<nonvirtual_vars, active_provider, has_boto, dependencies>>

\* the dependency check whose result is not looked at
CheckDependencies_Ignored ==
    /\ virt_pc = "dependencies"
    /\ dependencies' = CheckDriverDependencies(has_boto)
    /\ virt_pc' = "name" /\ UNCHANGED virt_ret
    /\ UNCHANGED <<nonvirtual_vars, active_provider, has_boto, configured>>

\* lines 69-70 with get_dependencies, lines 86-93
CheckDependencies ==
    /\ virt_pc = "dependencies"
    /\ dependencies' = CheckDriverDependencies(has_boto)
    /\ IF IsFalse(dependencies')
       THEN virt_pc' = "returned" /\ virt_ret' = PyFalse
       ELSE virt_pc' = "name" /\ UNCHANGED virt_ret
    /\ UNCHANGED <<nonvirtual_vars, active_provider, has_boto, configured>>

\* line 73
ReturnVirtualName ==
    /\ virt_pc = "name"
    /\ virt_pc' = "returned"
    /\ virt_ret' = VirtualName
    /\ UNCHANGED <<nonvirtual_vars, active_provider, has_boto, configured,
                   dependencies>>

VirtualNext ==
    \/ CheckConfiguredProvider
    \/ CheckDependencies
    \/ ReturnVirtualName

VirtualSpec == VirtualInit /\ [][VirtualNext]_vars

----------------------------------------------------------------------------
\* tests/conftest.py: fixture usage tracking, lines 299-397 and 611-634

MaxTests == 2
MaxFinishRequests == 2

\* an item: the names in item.fixturenames that have a fixturedef
TestItems == [uses : SUBSET FixtureNames]

\* lines 315-320 and 364-369: the fixturedefs of an item whose scope is not
\* "function"
UsedFixtureDefs(it) == { f \in it.uses : FixtureScope[f] # "function" }

\* the items that run from index i on and use fixturedef f
UsersFrom(f, i) == { j \in i..Len(tests) : f \in UsedFixtureDefs(tests[j]) }

FixtureInit ==
    /\ EngineIdle
    /\ SetupIdle
    /\ VirtualIdle
    /\ HelperIdle
    /\ hook = "unbound"
    /\ auto_marked = FALSE
    /\ \E n \in 1..MaxTests : tests \in [1..n -> TestItems]
    /\ next_test = 1
    /\ tracked = {}
    /\ node_ids = [f \in FixtureNames |-> {}]
    /\ wrapped = {}
    /\ finished = {}
    /\ finish_calls = [f \in FixtureNames |-> 0]
    /\ active = {}
    /\ requests = 0
    /\ request_ret = "none"
    /\ fx_pc = "define_tracking"
    /\ fx_err = None

\* lines 299-300: the def statement binds the module's name
\* pytest_collection_modifyitems to the tracking hook
DefineTrackingHook ==
    /\ fx_pc = "define_tracking"
    /\ hook' = "tracking"
    /\ fx_pc' = "define_markers"
    /\ UNCHANGED <<nonfixture_vars, auto_marked, tests, next_test, tracked,
                   node_ids, wrapped, finished, finish_calls, active, requests,
                   request_ret, fx_err>>

\* line 611: a second def statement of the same name binds it to the
\* automatic-markers function
DefineMarkersHook ==
    /\ fx_pc = "define_markers"
    /\ hook' = "markers"
    /\ fx_pc' = "collect"
    /\ UNCHANGED <<nonfixture_vars, auto_marked, tests, next_test, tracked,
                   node_ids, wrapped, finished, finish_calls, active, requests,
                   request_ret, fx_err>>

\* pytest calls the function the module's name is bound to.
\* Tracking hook, lines 313-357: every non-function fixturedef of every item
\* gets the item's node id in node_ids and a wrapped finish.
\* Markers function, lines 615-634: markers by directory, nothing tracked.
CollectionModifyItems ==
    /\ fx_pc = "collect"
    /\ IF hook = "tracking"
       THEN LET used == UNION { UsedFixtureDefs(tests[i]) : i \in 1..Len(tests) }
            IN /\ tracked' = tracked \cup used
               /\ node_ids' = [f \in FixtureNames |->
                                 node_ids[f] \cup UsersFrom(f, 1)]
               /\ wrapped' = wrapped \cup used
               /\ UNCHANGED auto_marked
       ELSE /\ auto_marked' = TRUE
            /\ UNCHANGED <<tracked, node_ids, wrapped>>
    /\ fx_pc' = "run"
    /\ UNCHANGED <<nonfixture_vars, hook, tests, next_test, finished,
                   finish_calls, active, requests, request_ret, fx_err>>

\* the wrapper without its test of _finished
Executed_IgnoresFinished(fs, nid) ==
    { f \in fs : f \in wrapped => nid[f] = {} }

\* fixturedef.finish(request) on the fixturedefs fs, given node_ids nid:
\* the fixturedefs whose original finish is executed. Wrapped (lines 327-349):
\* not when _finished is set, not while node_ids is non-empty. Not wrapped:
\* always.
Executed(fs, nid) ==
    { f \in fs : f \in wrapped => (f \notin finished /\ nid[f] = {}) }

\* the effect of fixturedef.finish(request) on the fixturedefs fs; act is the
\* set of fixturedefs set up when it is called
Finish(fs, nid, act) ==
    LET ex == Executed(fs, nid)
    IN /\ finish_calls' = [f \in FixtureNames |->
                             IF f \in ex THEN finish_calls[f] + 1
                             ELSE finish_calls[f]]
       /\ finished' = finished \cup (ex \cap wrapped)
       /\ active' = act \ ex

\* pytest_runtest_protocol, lines 361-397: the item runs at the yield with its
\* fixtures set up; afterwards the item's node id is removed from node_ids of
\* each fixturedef it used and a fixturedef left with no node id is finished.
\* A fixturedef without the node_ids attribute raises AttributeError at line 392.
\* An original finish that raises ends the loop of line 391: done is the set
\* of fixturedefs the loop got to, the raising one included.
RunTestProtocol ==
    /\ fx_pc = "run"
    /\ next_test <= Len(tests)
    /\ LET used == UsedFixtureDefs(tests[next_test])
       IN IF used \subseteq tracked
          THEN \E done \in SUBSET used, raiser \in used \cup {"none"} :
                 LET nid == [f \in FixtureNames |->
                               IF f \in done THEN node_ids[f] \ {next_test}
                               ELSE node_ids[f]]
                     emptied == { f \in done : nid[f] = {} }
                 IN /\ IF raiser = "none"
                       THEN done = used
                       ELSE raiser \in Executed(emptied, nid)
                    /\ node_ids' = nid
                    /\ Finish(emptied, nid, active \cup used)
                    /\ fx_pc' = IF raiser = "none" THEN "run" ELSE "error"
                    /\ fx_err' = IF raiser = "none" THEN fx_err ELSE "FinishError"
          ELSE /\ active' = active \cup used
               /\ fx_pc' = "error"
               /\ fx_err' = "AttributeError"
               /\ UNCHANGED <<node_ids, finished, finish_calls>>
    /\ next_test' = next_test + 1
    /\ UNCHANGED <<nonfixture_vars, hook, auto_marked, tests, tracked, wrapped,
                   requests, request_ret>>

\* pytest itself calls fixturedef.finish(request) when it tears a scope down;
\* the original finish, when it is executed, returns or raises
FinishRequest(f) ==
    /\ fx_pc \in {"run", "error"}
    /\ requests < MaxFinishRequests
    /\ FixtureScope[f] # "function"
    /\ requests' = requests + 1
    /\ Finish({f}, node_ids, active)
    /\ IF f \in Executed({f}, node_ids)
       THEN \E raises \in BOOLEAN :
              request_ret' = IF raises THEN "raised" ELSE "executed"
       ELSE request_ret' = IF f \in finished THEN "already finished"
                           ELSE "still in use"
    /\ UNCHANGED <<nonfixture_vars, hook, auto_marked, tests, next_test, tracked,
                   node_ids, wrapped, fx_pc, fx_err>>

FixtureNext ==
    \/ DefineTrackingHook
    \/ DefineMarkersHook
    \/ CollectionModifyItems
    \/ RunTestProtocol
    \/ \E f \in FixtureNames : FinishRequest(f)

FixtureSpec == FixtureInit /\ [][FixtureNext]_vars

\* The tracking hook of lines 299-357 applied to the collected items: the
\* session from the call of that function on
TrackingInit ==
    /\ EngineIdle
    /\ SetupIdle
    /\ VirtualIdle
    /\ HelperIdle
    /\ hook = "tracking"
    /\ auto_marked = FALSE
    /\ \E n \in 1..MaxTests : tests \in [1..n -> TestItems]
    /\ next_test = 1
    /\ tracked = {}
    /\ node_ids = [f \in FixtureNames |-> {}]
    /\ wrapped = {}
    /\ finished = {}
    /\ finish_calls = [f \in FixtureNames |-> 0]
    /\ active = {}
    /\ requests = 0
    /\ request_ret = "none"
    /\ fx_pc = "collect"
    /\ fx_err = None

TrackingNext ==
    \/ CollectionModifyItems
    \/ RunTestProtocol
    \/ \E f \in FixtureNames : FinishRequest(f)

TrackingSpec == TrackingInit /\ [][TrackingNext]_vars

----------------------------------------------------------------------------
\* tests/conftest.py: the helpers temp_directory, temp_file and temp_state_file,
\* lines 731-790. A path is the tuple of its components.

\* RUNTIME_VARS.TMP, RUNTIME_VARS.TMP_STATE_TREE, RUNTIME_VARS.TMP_PRODENV_STATE_TREE
TMP == <<"TMP">>
TMP_STATE_TREE == <<"TMP_STATE_TREE">>
TMP_PRODENV_STATE_TREE == <<"TMP_PRODENV_STATE_TREE">>
RootDirs == {TMP, TMP_STATE_TREE, TMP_PRODENV_STATE_TREE}

\* the directory tempfile.mkdtemp(dir=d) makes
MkdtempPath(d) == d \o <<"tmpXXXXXX">>

\* values of the name argument of the file helpers: a bare file name and a
\* name with a directory part
FileNames == { <<"top.sls">>, <<"core", "init.sls">> }

\* values of the name argument of temp_directory: None or a name
DirectoryNames == { NoPath, <<"extmods">> }

\* values of the contents argument: None, the empty string, a text that
\* starts with a newline, a text that does not; a text is indented
ContentsNone == [kind |-> "none", empty |-> TRUE, lead |-> FALSE, indented |-> FALSE]
ContentsValues ==
    { ContentsNone,
      [kind |-> "str", empty |-> TRUE, lead |-> FALSE, indented |-> FALSE],
      [kind |-> "str", empty |-> FALSE, lead |-> TRUE, indented |-> TRUE],
      [kind |-> "str", empty |-> FALSE, lead |-> FALSE, indented |-> TRUE] }

SaltEnvs == {"base", "prod", "dev"}

TempDirectoryCalls ==
    { [helper |-> "temp_directory", name |-> n, contents |-> ContentsNone,
       directory |-> NoPath, saltenv |-> "base", strip_first_newline |-> TRUE] :
      n \in DirectoryNames }

TempFileCalls ==
    { [helper |-> "temp_file", name |-> n, contents |-> c, directory |-> d,
       saltenv |-> "base", strip_first_newline |-> s] :
      n \in FileNames, c \in ContentsValues, d \in {NoPath, TMP \o <<"custom">>},
      s \in BOOLEAN }

TempStateFileCalls ==
    { [helper |-> "temp_state_file", name |-> n, contents |-> c,
       directory |-> NoPath, saltenv |-> e, strip_first_newline |-> s] :
      n \in FileNames, c \in ContentsValues, e \in SaltEnvs, s \in BOOLEAN }

\* os.path.dirname
Dirname(p) == SubSeq(p, 1, Len(p) - 1)

\* the directories os.makedirs(p) makes sure of
Prefixes(p) == { SubSeq(p, 1, k) : k \in 1 .. Len(p) }

\* p is d or lies below d
Under(p, d) == Len(p) >= Len(d) /\ SubSeq(p, 1, Len(d)) = d

\* lines 752-758: the text written, from contents
FileContents(c, strip) ==
    IF c.empty THEN c
    ELSE [c EXCEPT !.lead = c.lead /\ ~strip, !.indented = FALSE]

\* temp_state_file choosing the base tree for every unknown environment
StateTreeDir_DefaultsToBase(saltenv) ==
    IF saltenv = "prod" THEN TMP_PRODENV_STATE_TREE ELSE TMP_STATE_TREE

\* lines 780-787: the directory for saltenv; NoPath stands for the RuntimeError
StateTreeDir(saltenv) ==
    IF saltenv = "base" THEN TMP_STATE_TREE
    ELSE IF saltenv = "prod" THEN TMP_PRODENV_STATE_TREE
    ELSE NoPath

HelperInit ==
    /\ EngineIdle
    /\ SetupIdle
    /\ VirtualIdle
    /\ FixtureIdle
    /\ h_args \in TempDirectoryCalls \cup TempFileCalls \cup TempStateFileCalls
    /\ h_pc = IF h_args.helper = "temp_state_file" THEN "call" ELSE "enter"
    /\ h_path = NoPath
    /\ h_err = "none"
    /\ fs_dirs \in {{}, RootDirs}
    /\ fs_files = {}
    /\ fs_text = NoText
    /\ created = {}

\* temp_state_file, lines 778-790
TempStateFile ==
    /\ h_pc = "call"
    /\ h_args.helper = "temp_state_file"
    /\ LET directory == StateTreeDir(h_args.saltenv)
       IN IF directory = NoPath
          THEN /\ h_pc' = "raised"
               /\ h_err' = "RuntimeError"
               /\ UNCHANGED h_args
          ELSE /\ h_pc' = "enter"
               /\ h_args' = [h_args EXCEPT !.directory = directory]
               /\ UNCHANGED h_err
    /\ UNCHANGED <<nonhelper_vars, h_path, fs_dirs, fs_files, fs_text, created>>

\* temp_file up to its yield, lines 747-767; when makedirs or the write raises
\* OSError the finally clause of lines 769-774 runs at once
TempFileEnter ==
    /\ h_pc = "enter"
    /\ h_args.helper \in {"temp_file", "temp_state_file"}
    /\ LET directory == IF h_args.directory = NoPath THEN TMP ELSE h_args.directory
           file_path == directory \o h_args.name
           file_directory == Dirname(file_path)
           writes == h_args.contents.kind # "none"
       IN /\ h_path' = file_path
          /\ \E outcome \in {"ok", "makedirs raises", "write raises"} :
               /\ outcome = "makedirs raises" => file_directory \notin fs_dirs
               /\ outcome = "write raises" => writes
               /\ IF outcome = "makedirs raises"
                  THEN UNCHANGED <<fs_dirs, created>>
                  ELSE /\ fs_dirs' = fs_dirs \cup
                            (IF file_directory \in fs_dirs THEN {}
                             ELSE Prefixes(file_directory))
                       /\ created' = created
                            \cup (IF file_directory \in fs_dirs THEN {}
                                  ELSE Prefixes(file_directory) \ fs_dirs)
                            \cup (IF outcome = "ok" /\ writes THEN {file_path} ELSE {})
               /\ IF outcome = "ok"
                  THEN /\ fs_files' = IF writes THEN fs_files \cup {file_path}
                                      ELSE fs_files
                       /\ fs_text' = IF writes
                                     THEN FileContents(h_args.contents,
                                                       h_args.strip_first_newline)
                                     ELSE fs_text
                       /\ h_pc' = "block"
                       /\ UNCHANGED h_err
                  ELSE /\ fs_files' = fs_files \ {file_path}
                       /\ UNCHANGED fs_text
                       /\ h_pc' = "raised"
                       /\ h_err' = "OSError"
    /\ UNCHANGED <<nonhelper_vars, h_args>>

\* temp_directory up to its yield, lines 733-739
TempDirectoryEnter ==
    /\ h_pc = "enter"
    /\ h_args.helper = "temp_directory"
    /\ IF h_args.name # NoPath
       THEN /\ h_path' = TMP \o h_args.name
            /\ h_pc' = "block"
            /\ UNCHANGED <<fs_dirs, created, h_err>>
       ELSE IF TMP \in fs_dirs
       THEN /\ h_path' = MkdtempPath(TMP)
            /\ fs_dirs' = fs_dirs \cup {MkdtempPath(TMP)}
            /\ created' = created \cup {MkdtempPath(TMP)}
            /\ h_pc' = "block"
            /\ UNCHANGED h_err
       ELSE /\ h_pc' = "raised"
            /\ h_err' = "OSError"
            /\ UNCHANGED <<h_path, fs_dirs, created>>
    /\ UNCHANGED <<nonhelper_vars, h_args, fs_files, fs_text>>

\* the block managed by the helper (the caller's with body, run at the yield
\* of line 739 or 767): it can create or delete what the path names, and it
\* ends normally or by raising
ManagedBlock ==
    /\ h_pc = "block"
    /\ \E effect \in {"nothing", "creates", "deletes"} :
         IF h_args.helper = "temp_directory"
         THEN CASE effect = "nothing" -> UNCHANGED <<fs_dirs, fs_files>>
                [] effect = "creates" ->
                     /\ fs_dirs' = fs_dirs \cup Prefixes(h_path)
                     /\ fs_files' = fs_files \cup {h_path \o <<"mod.py">>}
                [] effect = "deletes" ->
                     /\ fs_dirs' = { d \in fs_dirs : ~Under(d, h_path) }
                     /\ fs_files' = { f \in fs_files : ~Under(f, h_path) }
         ELSE CASE effect = "nothing" -> UNCHANGED <<fs_dirs, fs_files>>
                [] effect = "creates" ->
                     /\ fs_files' = fs_files \cup {h_path}
                     /\ UNCHANGED fs_dirs
                [] effect = "deletes" ->
                     /\ fs_files' = fs_files \ {h_path}
                     /\ UNCHANGED fs_dirs
    /\ \E raises \in BOOLEAN :
         h_err' = IF raises THEN "BlockError" ELSE "none"
    /\ h_pc' = "exit"
    /\ UNCHANGED <<nonhelper_vars, h_args, h_path, fs_text, created>>

\* temp_file after its yield, lines 769-774: the finally clause runs whether
\* the block raised or not, and unlink failing with OSError is passed over
TempFileExit ==
    /\ h_pc = "exit"
    /\ h_args.helper \in {"temp_file", "temp_state_file"}
    /\ fs_files' = fs_files \ {h_path}
    /\ h_pc' = IF h_err = "BlockError" THEN "raised" ELSE "done"
    /\ UNCHANGED <<nonhelper_vars, h_args, h_path, h_err, fs_dirs, fs_text, created>>

\* temp_directory after its yield, lines 739-741: the exception of the block
\* is raised at the yield, outside any try, so line 741 runs only when the
\* block ended normally
TempDirectoryExit ==
    /\ h_pc = "exit"
    /\ h_args.helper = "temp_directory"
    /\ IF h_err = "BlockError"
       THEN /\ h_pc' = "raised"
            /\ UNCHANGED <<fs_dirs, fs_files>>
       ELSE /\ h_pc' = "done"
            /\ fs_dirs' = { d \in fs_dirs : ~Under(d, h_path) }
            /\ fs_files' = { f \in fs_files : ~Under(f, h_path) }
    /\ UNCHANGED <<nonhelper_vars, h_args, h_path, h_err, fs_text, created>>

HelperNext ==
    \/ TempStateFile
    \/ TempFileEnter
    \/ TempDirectoryEnter
    \/ ManagedBlock
    \/ TempFileExit
    \/ TempDirectoryExit

HelperSpec == HelperInit /\ [][HelperNext]_vars

----------------------------------------------------------------------------
TypeOK ==
    /\ pc \in {"idle", "call", "role", "open", "raised"} \cup LoopStates
    /\ pulls \in 0 .. MaxPulls
    /\ Len(pulled) = pulls
    /\ inflight \in 0 .. 1
    /\ setup_pc \in {"idle", "destructive", "expensive", "root", "binaries",
                     "network", "modules", "skipped"}
    /\ virt_pc \in {"idle", "configured", "dependencies", "name", "returned"}
    /\ virt_ret \in {PyUnset, PyFalse, VirtualName}
    /\ fx_pc \in {"idle", "define_tracking", "define_markers", "collect", "run",
                  "error"}
    /\ hook \in {"unbound", "tracking", "markers"}
    /\ next_test \in 0 .. MaxTests + 1
    /\ requests \in 0 .. MaxFinishRequests
    /\ tracked \subseteq FixtureNames /\ wrapped \subseteq FixtureNames
    /\ finished \subseteq wrapped /\ active \subseteq FixtureNames
    /\ request_ret \in {"none", "executed", "raised", "already finished",
                        "still in use"}
    /\ h_pc \in {"idle", "call", "enter", "block", "exit", "done", "raised"}
    /\ h_err \in {"none", "RuntimeError", "OSError", "BlockError"}
    /\ \A f \in fs_files : Dirname(f) \in fs_dirs

----------------------------------------------------------------------------
\* Vocabulary of the properties

\* the i-th value returned by get_event was an event and the loop is done with
\* its filtering
Decided(i) ==
    /\ i \in 1 .. pulls
    /\ EventTruthy(pulled[i])
    /\ (i < pulls \/ pc # "filter")

\* _logstash was called for the i-th value returned by get_event
Called(i) == \E k \in 1 .. Len(posts) : posts[k].idx = i

CallCount(i) == Cardinality({ k \in 1 .. Len(posts) : posts[k].idx = i })

MatchesSome(ev, pats) == \E k \in 1 .. Len(pats) : fnmatch(ev.tag, pats[k])

\* the function predicate: funs empty or absent, or no fun key, or fun in funs
FunPredicate(ev, f) ==
    \/ f.kind = "none"
    \/ f.kind = "list" /\ f.names = <<>>
    \/ "fun" \notin DOMAIN ev.data
    \/ f.kind = "list" /\ \E k \in 1 .. Len(f.names) : f.names[k] = ev.data.fun

\* the tag predicate as first stated: tags empty or absent, or some pattern matches
TagPredicateAnySequence(ev, t) ==
    \/ t.kind = "none"
    \/ t.pats = <<>>
    \/ MatchesSome(ev, t.pats)

\* the tag predicate of the code: also accepting when tags is not a list
TagPredicate(ev, t) ==
    \/ t.kind # "list"
    \/ t.pats = <<>>
    \/ MatchesSome(ev, t.pats)

\* outcomes of the HTTP query that are transport-level failures
FailedOutcomes == {"error", "raise"}

----------------------------------------------------------------------------
\* C1: a delivery that fails at the transport level (the query returns an error
\* or raises) never leaves the loop: right after it the loop is still running
\* and ready to pull the next event.
C1_FailedDeliveryKeepsLoop ==
    [][(pc = "deliver" /\ lastResult' \in FailedOutcomes) => pc' = "pull"]_vars

\* C2 as first stated: for every event pulled and filtered, _logstash is called
\* iff the tag predicate (tags empty or absent, or the tag matches a pattern)
\* and the function predicate both accept.
C2_CalledIffBothAccept_AnySequence ==
    \A i \in 1 .. pulls :
        Decided(i) =>
            (Called(i) <=> (TagPredicateAnySequence(pulled[i], tags)
                            /\ FunPredicate(pulled[i], funs)))

\* C2 amended: for every event pulled and filtered, _logstash is called iff
\* the tag predicate (tags empty, absent or not a list, or the tag matches a
\* pattern) and the function predicate both accept; either rejection alone
\* drops the event.
C2_CalledIffBothAccept ==
    \A i \in 1 .. pulls :
        Decided(i) =>
            (Called(i) <=> (TagPredicate(pulled[i], tags)
                            /\ FunPredicate(pulled[i], funs)))

\* an event accepted by both predicates has been forwarded and an event that
\* only the function predicate rejects has been dropped
C2_Witness ==
    /\ tags.kind = "list" /\ tags.pats # <<>>
    /\ funs.kind = "list" /\ funs.names # <<>>
    /\ \E i \in 1 .. pulls : Decided(i) /\ Called(i)
    /\ \E i \in 1 .. pulls :
         /\ Decided(i) /\ ~Called(i)
         /\ TagPredicate(pulled[i], tags)
         /\ ~FunPredicate(pulled[i], funs)

\* C3: with no function allow-list, for a list of patterns P an event is
\* forwarded iff P is empty or its tag matches at least one pattern of P; with
\* tags = ["salt/job/*/new"] the tag salt/job/123/new is forwarded and the tag
\* salt/job/123/ret/0 is dropped.
C3_TagOnlyForwarding ==
    (funs.kind = "none" /\ tags.kind = "list") =>
        \A i \in 1 .. pulls :
            Decided(i) =>
                /\ Called(i) <=> (tags.pats = <<>> \/ MatchesSome(pulled[i], tags.pats))
                /\ (tags.pats = <<P_new>> /\ pulled[i].tag = T_new) => Called(i)
                /\ (tags.pats = <<P_new>> /\ pulled[i].tag = T_ret) => ~Called(i)

\* with two patterns and no allow-list, an event matching only the first
\* pattern has been forwarded and a non-matching event has been dropped
C3_Witness ==
    /\ funs.kind = "none"
    /\ tags = [kind |-> "list", pats |-> <<P_new, P_ret>>]
    /\ \E i \in 1 .. pulls : Decided(i) /\ Called(i) /\ pulled[i].tag = T_new
    /\ \E i \in 1 .. pulls : Decided(i) /\ ~Called(i) /\ pulled[i].tag = T_any

\* C4: for an event without a fun key the decision does not depend on funs (it
\* is the outcome of the tag stage alone); for an event with a fun key and a
\* non-empty funs, the event is forwarded only if its fun is a member of funs.
C4_LenientFunFilter ==
    \A i \in 1 .. pulls :
        Decided(i) =>
            /\ "fun" \notin DOMAIN pulled[i].data =>
                   (Called(i) <=> TagPredicate(pulled[i], tags))
            /\ ("fun" \in DOMAIN pulled[i].data /\ Truthy(funs) /\ Called(i)) =>
                   \E k \in 1 .. Len(funs.names) : funs.names[k] = pulled[i].data.fun

\* with funs = ["probes.results"], an event without fun has been forwarded and
\* an event whose fun is other.fn has been dropped
C4_Witness ==
    /\ funs = [kind |-> "list", names |-> <<"probes.results">>]
    /\ \E i \in 1 .. pulls :
         Decided(i) /\ Called(i) /\ "fun" \notin DOMAIN pulled[i].data
    /\ \E i \in 1 .. pulls :
         /\ Decided(i) /\ ~Called(i)
         /\ "fun" \in DOMAIN pulled[i].data
         /\ pulled[i].data.fun = "other.fn"
         /\ TagPredicate(pulled[i], tags)

\* C5: every event pulled causes at most one call of _logstash, made for the
\* event just pulled and before any later event is pulled: nothing is retried,
\* requeued or delivered in a later iteration.
C5_AtMostOnce ==
    /\ [](\A i \in 1 .. pulls : CallCount(i) <= 1)
    /\ [][posts' # posts =>
            /\ posts' = Append(posts, posts'[Len(posts')])
            /\ posts'[Len(posts')].idx = pulls
            /\ posts'[Len(posts')].data = event.data
            /\ ~Called(pulls)]_vars

\* a delivery has failed, the next event has been pulled and dropped, and the
\* failed event was posted exactly once
C5_Witness ==
    /\ lastResult = "error"
    /\ pulls = 2
    /\ pc = "pull"
    /\ Decided(1) /\ Decided(2)
    /\ CallCount(1) = 1 /\ CallCount(2) = 0

\* C6: once opened, the subscription is released exactly once on every exit of
\* start, whatever raised; it is not released while the loop runs, and never
\* twice.
C6_ReleasedExactlyOnce ==
    /\ released <= 1
    /\ pc \in LoopStates => released = 0
    /\ (pc = "raised" /\ event_bus # None) => released = 1
    /\ event_bus = None => released = 0

\* start has exited on an exception of the delivery, with the subscription
\* released
C6_Witness ==
    /\ pc = "raised"
    /\ err = "DeliveryError"
    /\ event_bus # None
    /\ released = 1

\* C7: the loop ends only because the subscription raised or the host
\* cancelled; no outcome of filtering or of a delivery ends it.
C7_LoopEndsOnlyOnBusOrCancel ==
    (pc = "raised" /\ event_bus # None) => err \in GetEventFailures

\* C8: without a usable url start fails before the subscription is opened and
\* before any event is pulled or delivered.
C8_NoUrlFailsAtStartup ==
    url \in {Absent, None} => (opens = 0 /\ pulls = 0 /\ posts = <<>>)

\* C9: when opening the subscription fails or get_event raises, the error
\* leaves start and the component stops: the open is not retried, no further
\* event is pulled and no further delivery is made.
C9_SubscriptionErrorIsFatal ==
    /\ [](opens <= 1)
    /\ []((opens = 1 /\ event_bus = None) =>
            (pc = "raised" /\ err = "SubscriptionError"
             /\ pulls = 0 /\ posts = <<>>))
    /\ [][(pc = "pull" /\ pulls' = pulls) =>
            (pc' = "raised" /\ err' \in GetEventFailures)]_vars
    /\ [][pc = "raised" =>
            (pc' = "raised" /\ err' = err /\ opens' = opens
             /\ pulls' = pulls /\ posts' = posts)]_vars

\* get_event raised after an event had been pulled and delivered
C9_Witness ==
    /\ pc = "raised"
    /\ err = "SubscriptionError"
    /\ event_bus # None
    /\ pulls = 1
    /\ Len(posts) = 1

\* C10: at most one delivery is outstanding, and no event is pulled while a
\* POST is in flight.
C10_OneOutstandingDelivery ==
    /\ [](inflight <= 1)
    /\ [][inflight > 0 => pulls' = pulls]_vars

\* a second event has been pulled after the delivery of the first completed
C10_Witness ==
    /\ pulls = 2
    /\ Called(1)
    /\ pc = "filter"
    /\ inflight = 0

C12_DefaultForwardsAll ==
    (\/ tags.kind = "none" /\ funs.kind = "none"
     \/ tags = [kind |-> "list", pats |-> <<>>]
        /\ funs = [kind |-> "list", names |-> <<>>]) =>
        \A i \in 1 .. pulls : Decided(i) => CallCount(i) = 1

\* with both lists empty, an event with a fun and an event without one, of
\* different tags, have both been forwarded
C12_Witness ==
    /\ tags = [kind |-> "list", pats |-> <<>>]
    /\ funs = [kind |-> "list", names |-> <<>>]
    /\ pulls = 2
    /\ Decided(1) /\ Decided(2)
    /\ Called(1) /\ Called(2)
    /\ "fun" \in DOMAIN pulled[1].data
    /\ "fun" \notin DOMAIN pulled[2].data
    /\ pulled[1].tag # pulled[2].tag

\* the mapping that a JSON text of string members stands for
RECURSIVE LoadsMembers(_, _)
LoadsMembers(b, i) ==
    IF i + 6 > Len(b) THEN <<>>
    ELSE LET rest == IF i + 7 <= Len(b) /\ b[i + 7] = ","
                     THEN LoadsMembers(b, i + 8)
                     ELSE <<>>
         IN (b[i + 1] :> b[i + 5]) @@ rest

Loads(b) == LoadsMembers(b, 2)

WellFormedJson(b) ==
    /\ Len(b) >= 2
    /\ b[1] = "{" /\ b[Len(b)] = "}"
    /\ (Len(b) - 1) % 8 \in {0, 1}

\* C13: every delivery is one POST to the url given to start, with the header
\* Content-Type: application/json and as body the JSON text of the data of the
\* event it is made for, and of nothing else.
C13_PostOfEventData ==
    /\ \A k \in 1 .. Len(posts) :
         /\ posts[k].method = "POST"
         /\ posts[k].url = url
         /\ DOMAIN posts[k].header_dict = {"Content-Type"}
         /\ posts[k].header_dict["Content-Type"] = "application/json"
         /\ posts[k].idx \in 1 .. pulls
         /\ WellFormedJson(posts[k].body)
         /\ DOMAIN Loads(posts[k].body) = DOMAIN pulled[posts[k].idx].data
         /\ \A key \in DOMAIN Loads(posts[k].body) :
                Loads(posts[k].body)[key] = pulled[posts[k].idx].data[key]
    /\ \A i \in 1 .. pulls : CallCount(i) <= 1
    /\ inflight = (IF pc = "deliver" THEN 1 ELSE 0)

\* two events with different data have been posted, each with its own data
C13_Witness ==
    /\ Len(posts) = 2
    /\ url = LogstashUrl
    /\ pulled[1].data # pulled[2].data
    /\ "fun" \in DOMAIN pulled[1].data
    /\ posts[1].body = Dumps(pulled[1].data)
    /\ posts[2].body = Dumps(pulled[2].data)

\* suffix is what s ends with
IsSuffix(suffix, s) == \E k \in 0 .. Len(s) : SubSeq(s, k + 1, Len(s)) = suffix

\* C14: the role is chosen from the id alone, master iff the id ends with
\* "_master" and minion for every other id; one subscription is opened per
\* call, with that role.
C14_RoleFromId ==
    /\ opens <= 1
    /\ instance # None =>
         instance = (IF IsSuffix(MasterSuffix, opts_id) THEN "master" ELSE "minion")
    /\ opens = 1 => instance # None
    /\ event_bus # None => (opens = 1 /\ event_bus = instance)

\* an id that contains "_master" without ending with it has subscribed as minion
C14_Witness ==
    /\ opts_id = Id_a_master1
    /\ opens = 1
    /\ event_bus = "minion"

\* C20: for every event pulled that the filter accepts, a delivery attempt is
\* made before the next event is pulled, and after the attempt the loop goes
\* on to pull the next event.
C20_DeliverThenPullNext ==
    /\ [](\A i \in 1 .. pulls :
            (Decided(i) /\ TagPredicate(pulled[i], tags)
                        /\ FunPredicate(pulled[i], funs)) => Called(i))
    /\ [][pulls' # pulls => (pc = "pull" /\ inflight = 0)]_vars
    /\ [][pc = "deliver" => pc' = "pull"]_vars

----------------------------------------------------------------------------
\* Vocabulary of the properties of pytest_runtest_setup

NetworkMsgs == {Msg_NoLocalNetwork, Msg_NoInternet}
BinaryMsgs == {Msg_Binary, Msg_NoBinaries}

\* the network section has been run to its end
NetworkSectionDone ==
    \/ setup_pc = "modules"
    \/ setup_pc = "skipped" /\ skip_msg \in NetworkMsgs

\* the binaries section has been run to its end
BinariesSectionDone ==
    \/ setup_pc \in {"network", "modules"}
    \/ setup_pc = "skipped" /\ skip_msg \in BinaryMsgs \cup NetworkMsgs

\* the names the marker passes, whether one by one or as one list
NamedBinaries(mark) ==
    UNION { { a.v[k] : k \in 1 .. Len(a.v) } : a \in { mark.args[i] : i \in 1 .. Len(mark.args) } }

\* C15: a test marked requires_network is skipped with "No local network was
\* detected" when only_local_network is True and no local network is found,
\* and with "No internet network connection was detected" when none of the
\* probed addresses accepts a connection.
C15_SkippedWithoutNetwork ==
    (item.requires_network.present /\ NetworkSectionDone) =>
        LET noLocal == item.requires_network.only_local_network
                       /\ ~env.bind4 /\ ~env.bind6
        IN /\ noLocal => skip_msg = Msg_NoLocalNetwork
           /\ (~noLocal /\ env.reachable = {}) => skip_msg = Msg_NoInternet

\* C16: a test marked skip_if_binaries_missing is skipped if any of the passed
\* binaries is not found in the path.
C16_SkippedIfAnyBinaryMissing ==
    (item.skip_if_binaries_missing.present /\ BinariesSectionDone) =>
        ((\E b \in NamedBinaries(item.skip_if_binaries_missing) : b \notin env.found)
            => skip_msg \in BinaryMsgs)

\* C17: past the two checks, a test with the destructive_test marker has been
\* skipped as destructive iff --run-destructive is false, a test with the
\* expensive_test marker has been skipped as expensive iff --run-expensive is
\* false, and a test without the marker is skipped by neither option.
C17_MarkerGating ==
    /\ setup_pc # "destructive" =>
         (skip_msg = Msg_Destructive
            <=> (item.destructive_test /\ ~item.run_destructive))
    /\ (setup_pc \notin {"destructive", "expensive"} /\ skip_msg # Msg_Destructive) =>
         (skip_msg = Msg_Expensive
            <=> (item.expensive_test /\ ~item.run_expensive))
    /\ skip_msg = Msg_Destructive => item.destructive_test
    /\ skip_msg = Msg_Expensive => item.expensive_test

\* a test with both markers, run with --run-destructive only, has been skipped
\* as expensive
C17_Witness ==
    /\ item.destructive_test /\ item.run_destructive
    /\ item.expensive_test /\ ~item.run_expensive
    /\ setup_pc = "skipped"
    /\ skip_msg = Msg_Expensive
    /\ environ.DESTRUCTIVE_TESTS = "True"

----------------------------------------------------------------------------
\* C19: __virtual__ returns False if get_configured_provider() is False or if
\* get_dependencies() is False (boto3 missing), and the virtual name lightsail
\* in every other case.
C19_VirtualLoadsWhenConfigured ==
    virt_pc = "returned" =>
        /\ virt_ret \in {PyFalse, VirtualName}
        /\ virt_ret = PyFalse <=> (configured = PyFalse \/ ~has_boto)
        /\ virt_ret.kind = "str" => virt_ret.s = "lightsail"

\* with the provider configured, a run without boto3 has returned False
C19_Witness ==
    /\ virt_pc = "returned"
    /\ configured.kind = "dict"
    /\ ~has_boto
    /\ virt_ret = PyFalse

----------------------------------------------------------------------------
\* C18: over any sequence of collected tests, a non-function-scoped fixture is
\* finished only after the last test that uses it has run: a finish request
\* made while a not-yet-run test still lists the fixture does not terminate it,
\* and once the last test that uses it has completed the fixture is finished.
C18_DeferredTeardown ==
    /\ [][\A f \in FixtureNames :
            finish_calls'[f] > finish_calls[f] => UsersFrom(f, next_test') = {}]_vars
    /\ [](\A f \in FixtureNames :
            (fx_pc \in {"run", "error"} /\ UsersFrom(f, 1) # {}
               /\ UsersFrom(f, next_test) = {}) => finish_calls[f] > 0)

----------------------------------------------------------------------------
\* C21: filtering is a pure, deterministic function of (event, tags, funs): the
\* forward/drop decision for an event is what the filter computes from the
\* event, tags and funs alone, and the same event pulled twice gets the same
\* decision whatever was processed before it and however the earlier
\* deliveries ended.
C21_FilterIsPure ==
    /\ \A i \in 1 .. pulls :
         Decided(i) => (Called(i) <=> Publish(pulled[i], tags, funs))
    /\ \A i, j \in 1 .. pulls :
         (Decided(i) /\ Decided(j) /\ pulled[i] = pulled[j])
            => (Called(i) <=> Called(j))

\* the same event was pulled twice, the delivery of the first ended in a
\* failure, and the second is being delivered all the same
C21_Witness ==
    /\ pulls = 2
    /\ pulled[1] = pulled[2]
    /\ lastResult \in {"500", "error"}
    /\ pc = "deliver"
    /\ Called(1) /\ Called(2)

----------------------------------------------------------------------------
\* C22: url, tags and funs are left unchanged by every step of start, and the
\* role chosen is left unchanged by every step of the loop (pulling, filtering,
\* dropping, delivering).
C22_ConfigurationUnchanged ==
    [][/\ url' = url
       /\ tags' = tags
       /\ funs' = funs
       /\ pc \in LoopStates => instance' = instance]_vars

\* a run as a master with a tag filter that has pulled two events, dropped one
\* and delivered the other
C22_Witness ==
    /\ pulls = 2
    /\ EventTruthy(pulled[1]) /\ EventTruthy(pulled[2])
    /\ Len(posts) = 1
    /\ pc = "pull"
    /\ lastResult = "2xx"
    /\ tags.kind = "list" /\ tags.pats # <<>>
    /\ instance = "master"

----------------------------------------------------------------------------
\* C24: when tags is non-empty but not a list (a tuple, a single pattern
\* string), no tag predicate is evaluated: every event passes the tag stage and
\* is forwarded iff the function predicate accepts it, events whose tag matches
\* none of the patterns included.
C24_NonListTagsPassEverything ==
    (tags.kind \notin {"none", "list"} /\ tags.pats # <<>>) =>
        \A i \in 1 .. pulls :
            Decided(i) => (Called(i) <=> FunPredicate(pulled[i], funs))

\* with tags a tuple, an event whose tag matches none of its patterns has been
\* forwarded
C24_Witness ==
    /\ tags.kind = "tuple"
    /\ \E i \in 1 .. pulls :
         /\ Decided(i)
         /\ ~MatchesSome(pulled[i], tags.pats)
         /\ Called(i)

----------------------------------------------------------------------------
\* C25: when get_event returns a null or empty event, no filter is evaluated
\* and no delivery is made for that iteration and the loop goes on to call
\* get_event again; a run whose bus yielded only such events has never called
\* _logstash.
C25_NullEventsAreSkipped ==
    /\ [][(pulls' = pulls + 1 /\ ~EventTruthy(event')) =>
            (pc' = "pull" /\ posts' = posts /\ inflight' = inflight)]_vars
    /\ []((\A i \in 1 .. pulls : ~EventTruthy(pulled[i])) => posts = <<>>)
    /\ []((pc = "pull" /\ pulls \in 1 .. MaxPulls - 1 /\ ~EventTruthy(event))
            => ENABLED GetEvent)

\* get_event has returned None and then an empty event, and the loop is about
\* to call it again
C25_Witness ==
    /\ pulls = 2
    /\ pulled = <<NoEvent, EmptyEvent>>
    /\ pc = "pull"
    /\ posts = <<>>
    /\ released = 0

----------------------------------------------------------------------------
\* the payloads of the events accepted among the first i pulled, in the order
\* get_event returned them
RECURSIVE AcceptedPayloads(_)
AcceptedPayloads(i) ==
    IF i = 0 THEN <<>>
    ELSE AcceptedPayloads(i - 1)
         \o (IF Decided(i) /\ Publish(pulled[i], tags, funs)
             THEN <<pulled[i].data>> ELSE <<>>)

\* C26: the sequence of payloads passed to _logstash is exactly the
\* subsequence of accepted events in the order get_event returned them: no
\* reordering, no duplication.
C26_BusOrderPreserved ==
    [k \in 1 .. Len(posts) |-> posts[k].data] = AcceptedPayloads(pulls)

\* two events with different payloads have been forwarded
C26_Witness ==
    /\ Len(posts) = 2
    /\ posts[1].data # posts[2].data
    /\ posts[1].idx = 1 /\ posts[2].idx = 2

----------------------------------------------------------------------------
\* the subscription is held: opened and not released
Held == opens = 1 /\ event_bus # None /\ released = 0

\* C27: every get_event call and every delivery happens while the subscription
\* is held: none before it has been opened, none after it has been released.
C27_OnlyWhileSubscribed ==
    /\ [](pc \in LoopStates => Held)
    /\ [][(pulls' # pulls \/ posts' # posts \/ lastResult' # lastResult) => Held]_vars
    /\ [][released > 0 =>
            (pulls' = pulls /\ posts' = posts /\ lastResult' = lastResult)]_vars

\* the subscription has been released after two events were pulled and one of
\* them delivered
C27_Witness ==
    /\ released = 1
    /\ pulls = 2
    /\ Len(posts) >= 1
    /\ pc = "raised"

----------------------------------------------------------------------------
\* C28: the role is computed before the subscription is opened: when the host
\* configuration has no id, start fails while computing the role, so that no
\* subscription is opened, nothing is released and no event is pulled or
\* delivered.
C28_NoIdFailsBeforeOpen ==
    (opts_id = NoId /\ url # Absent) =>
        /\ opens = 0 /\ event_bus = None
        /\ released = 0
        /\ pulls = 0 /\ posts = <<>>
        /\ pc \in {"call", "role", "raised"}
        /\ pc = "raised" => err = "AttributeError"

\* start has failed with the AttributeError of line 99
C28_Witness ==
    /\ opts_id = NoId
    /\ url = LogstashUrl
    /\ pc = "raised"
    /\ err = "AttributeError"
    /\ opens = 0

----------------------------------------------------------------------------
\* C23: temp_state_file accepts only the environments base and prod: for any
\* other saltenv it raises RuntimeError before any file or directory is
\* created, and for base / prod what it writes lies under TMP_STATE_TREE /
\* TMP_PRODENV_STATE_TREE respectively.
C23_StateFileEnvironments ==
    h_args.helper = "temp_state_file" =>
        /\ h_args.saltenv \notin {"base", "prod"} =>
             /\ h_pc \in {"call", "raised"}
             /\ h_pc = "raised" => h_err = "RuntimeError"
             /\ created = {} /\ fs_files = {} /\ h_path = NoPath
        /\ h_args.saltenv = "base" =>
             \A p \in created \cup ({h_path} \ {NoPath}) : Under(p, TMP_STATE_TREE)
        /\ h_args.saltenv = "prod" =>
             \A p \in created \cup ({h_path} \ {NoPath}) :
                 Under(p, TMP_PRODENV_STATE_TREE)
        /\ h_args.saltenv \in {"base", "prod"} => h_err # "RuntimeError"

\* for prod, the file has been written below the prod tree, in a directory
\* that had to be made
C23_Witness ==
    /\ h_args.helper = "temp_state_file"
    /\ h_args.saltenv = "prod"
    /\ h_pc = "block"
    /\ h_path = TMP_PRODENV_STATE_TREE \o <<"core", "init.sls">>
    /\ h_path \in fs_files
    /\ fs_text # NoText
    /\ Dirname(h_path) \in created

----------------------------------------------------------------------------
\* C30: temp_file removes its file on every exit path of the managed block,
\* including when the block raises and when the block already deleted the
\* file; temp_directory gives the same guarantee for its directory.
C30_RemovedOnEveryExit ==
    (h_pc \in {"done", "raised"} /\ h_path # NoPath) =>
        IF h_args.helper = "temp_directory"
        THEN h_path \notin fs_dirs
        ELSE h_path \notin fs_files

----------------------------------------------------------------------------
\* C29: for every non-function-scoped fixture whose finish was wrapped by the
\* tracking hook, the original finish is executed at most once over the whole
\* session, however many times finish is requested and whether or not the
\* original finish raises.
C29_OriginalFinishAtMostOnce ==
    \A f \in FixtureNames :
        (f \in wrapped /\ FixtureScope[f] # "function") =>
            /\ finish_calls[f] <= 1
            /\ finish_calls[f] = 1 <=> f \in finished

\* the original finish of a wrapped fixture was executed once and raised, and
\* a later request by pytest found the fixture already finished
C29_Witness ==
    /\ "module_daemon" \in wrapped
    /\ finish_calls["module_daemon"] = 1
    /\ fx_err = "FinishError"
    /\ wrapped = {"module_daemon"}
    /\ requests = MaxFinishRequests
    /\ request_ret = "already finished"

====
